---- MODULE Spec2Model ----
(***************************************************************************)
(* Deploy / rollback of a Portainer stack (scripts/deploy_portainer.py and *)
(* scripts/rollback_portainer.py): argument validation, previous-tag       *)
(* resolution, image-tag rewriting, stack lookup, create-or-update, and    *)
(* the rollback history file.                                              *)
(*                                                                         *)
(* Python strings are modelled as sequences of one-character strings, so   *)
(* that split(':'), lower() and the substring test are computed as the     *)
(* code computes them.  A missing (None) or empty ('') value that the code *)
(* only tests for truthiness is the empty sequence.                        *)
(***************************************************************************)
EXTENDS Integers, Sequences, FiniteSets, TLC

VARIABLES
    pc,            \* per invocation: position in main()
    exit_code,     \* per invocation: process exit code once exited
    args,          \* per invocation: parsed command line / environment
    compose_kind,  \* per invocation: what the compose file path holds on disk
    compose_data,  \* per invocation: the parsed (then rewritten) document
    previous_tag,  \* per invocation: rollback's resolved tag
    stack_id,      \* per invocation: result of get_stack_id
    history,       \* per invocation: rollback's in-memory history list
    calls,         \* per invocation: registry API calls issued, in order
    wrote,         \* per invocation: number of files written
    io_error,      \* per invocation: the history file write raised OSError
    stacks,        \* the registry: what GET /api/stacks lists
    history_file,  \* per artifact directory: rollback_history.json on disk
    clock,         \* number of invocations started (the wall clock)
    artifact_error, \* per invocation: reading the tag artifact raised
    rw,            \* inputs and outputs of the image-tag rewriter
    rs,            \* inputs and output of the previous-tag resolver
    dv             \* inputs and outcome of math_utils.divide

vars == <<pc, exit_code, args, compose_kind, compose_data, previous_tag,
          stack_id, history, calls, wrote, io_error, artifact_error, stacks,
          history_file, clock, rw, rs, dv>>

(***************************************************************************)
(* Bounds                                                                  *)
(***************************************************************************)
MaxInvocations == 2
MaxStacks == 2
MaxStackId == 1
MaxRepoLen == 2
MaxPathLen == 2

SeqsUpTo(S, n) == UNION {[1..k -> S] : k \in 0..n}

SeqsFromTo(S, m, n) == UNION {[1..k -> S] : k \in m..n}

(***************************************************************************)
(* String helpers: str.lower(), `x in y`, str.split(':')[0]                *)
(***************************************************************************)
COLON == <<":">>

lower_char(c) == IF c = "A" THEN "a" ELSE IF c = "B" THEN "b" ELSE c

lower(s) == [i \in 1..Len(s) |-> lower_char(s[i])]

\* Python's `needle in haystack` on strings
contains(haystack, needle) ==
    \E i \in 0..(Len(haystack) - Len(needle)) :
        SubSeq(haystack, i + 1, i + Len(needle)) = needle

first_colon(s) ==
    IF \E i \in 1..Len(s) : s[i] = ":"
    THEN CHOOSE i \in 1..Len(s) : s[i] = ":" /\ \A j \in 1..(i - 1) : s[j] # ":"
    ELSE 0

base_image_whole(image) == image

\* image.split(':')[0]
base_image(image) ==
    IF first_colon(image) = 0 THEN image
    ELSE SubSeq(image, 1, first_colon(image) - 1)

(***************************************************************************)
(* update_image_tags: a composition document is a mapping from service     *)
(* name to a service config, which may or may not carry an 'image' key.    *)
(***************************************************************************)
ServiceNames == {"db", "web"}

NoImage == [has_image |-> FALSE, image |-> <<>>]

WithImage(i) == [has_image |-> TRUE, image |-> i]

update_image_tags_unguarded(data, registry_url, project_path, image_tag) ==
    [s \in DOMAIN data |->
        IF /\ data[s].has_image
           /\ contains(lower(data[s].image), lower(project_path))
        THEN WithImage(base_image(data[s].image) \o COLON \o image_tag)
        ELSE data[s]]

update_image_tags(data, registry_url, project_path, image_tag) ==
    IF registry_url = <<>> \/ project_path = <<>> \/ image_tag = <<>>
    THEN data
    ELSE [s \in DOMAIN data |->
            IF /\ data[s].has_image
               /\ contains(lower(data[s].image), lower(project_path))
            THEN WithImage(base_image(data[s].image) \o COLON \o image_tag)
            ELSE data[s]]

(***************************************************************************)
(* Previous-tag resolution (rollback)                                      *)
(***************************************************************************)
MAIN == <<"m", "a", "i", "n">>

LATEST_SUFFIX == <<"-", "l", "a", "t", "e", "s", "t">>

UNKNOWN == <<"u", "n", "k", "n", "o", "w", "n">>

\* os.getenv(name, default) on an environment variable [present, val]
getenv(var, default) == IF var.present THEN var.val ELSE default

query_previous_tag_main_only(branch_var) == MAIN \o LATEST_SUFFIX

query_previous_tag_from_registry(branch_var) ==
    getenv(branch_var, MAIN) \o LATEST_SUFFIX

\* The try block of get_previous_tag: the artifact's tag, or <<>> when the
\* block falls through or raises (the exception is caught and logged).
artifact_tag(artifact) ==
    IF artifact.kind = "absent" THEN <<>>
    ELSE IF artifact.kind = "corrupt" THEN <<>>        \* json.load raises
    ELSE IF artifact.kind = "array" THEN <<>>          \* list has no .get
    ELSE IF artifact.has_tag THEN artifact.tag         \* data.get(...)
    ELSE <<>>

\* The except branch of get_previous_tag runs: json.load raised, or the
\* parsed value has no .get
artifact_read_raises(artifact) == artifact.kind \in {"corrupt", "array"}

get_previous_tag_uncaught(previous_tag_arg, artifact, branch_var) ==
    IF previous_tag_arg # <<>> THEN previous_tag_arg
    ELSE IF artifact_read_raises(artifact) THEN <<>>
    ELSE IF artifact_tag(artifact) # <<>> THEN artifact_tag(artifact)
    ELSE query_previous_tag_from_registry(branch_var)

get_previous_tag(previous_tag_arg, artifact, branch_var) ==
    IF previous_tag_arg # <<>> THEN previous_tag_arg
    ELSE IF artifact_tag(artifact) # <<>> THEN artifact_tag(artifact)
    ELSE query_previous_tag_from_registry(branch_var)

(***************************************************************************)
(* Stack lookup and the create-or-update decision                          *)
(***************************************************************************)
NoneId == -1

RECURSIVE first_match_by_env(_, _, _, _)
RECURSIVE first_match(_, _, _, _)
first_match_by_env(listing, i, env_id, stack_name) ==
    IF i > Len(listing) THEN NoneId
    ELSE IF listing[i].EndpointId = env_id THEN listing[i].Id
         ELSE first_match_by_env(listing, i + 1, env_id, stack_name)

first_match(listing, i, env_id, stack_name) ==
    IF i > Len(listing) THEN NoneId
    ELSE IF listing[i].Name = stack_name /\ listing[i].EndpointId = env_id
         THEN listing[i].Id
         ELSE first_match(listing, i + 1, env_id, stack_name)

RECURSIVE first_by_name(_, _, _)
first_by_name(listing, i, stack_name) ==
    IF i > Len(listing) THEN NoneId
    ELSE IF listing[i].Name = stack_name THEN listing[i].Id
         ELSE first_by_name(listing, i + 1, stack_name)

get_stack_id_last_match(ok, listing, env_id, stack_name) ==
    LET hits == {i \in 1..Len(listing) :
                    /\ listing[i].Name = stack_name
                    /\ listing[i].EndpointId = env_id}
    IN  IF ok /\ hits # {}
        THEN listing[CHOOSE i \in hits : \A j \in hits : j <= i].Id
        ELSE NoneId

get_stack_id_by_name_only(ok, listing, env_id, stack_name) ==
    IF ok THEN first_by_name(listing, 1, stack_name) ELSE NoneId

\* get_stack_id on a listing response; ok = FALSE when the GET raised
get_stack_id(ok, listing, env_id, stack_name) ==
    IF ok THEN first_match(listing, 1, env_id, stack_name) ELSE NoneId

stack_found_always(id) == TRUE

\* Python truthiness of stack_id in `if stack_id:` / `if not stack_id:`
stack_found(id) == id # NoneId /\ id # 0

creates_in_any_flow(flow) == TRUE

\* only deploy_portainer.py defines and calls create_stack
creates_when_missing(flow) == flow = "deploy"

after_update_retry(flow, ok) ==
    IF ~ok THEN "reconcile"
    ELSE IF flow = "rollback" THEN "record_read" ELSE "exited"

after_update_ignoring_error(flow, ok) ==
    IF flow = "rollback" THEN "record_read" ELSE "exited"

\* where main() stands after update_stack returned or called sys.exit(1)
after_update(flow, ok) ==
    IF ~ok THEN "exited"
    ELSE IF flow = "rollback" THEN "record_read" ELSE "exited"

missing_args_lenient(a) ==
    {n \in {"portainer_url", "stack_name", "compose_file"} : a[n] = <<>>}

\* validate_args: the names of the required arguments that are falsy
missing_args(a) ==
    {n \in {"portainer_url", "api_key", "stack_name", "compose_file"} :
        a[n] = <<>>}

\* yaml.dump: the services in sorted key order, each with its config
ServiceOrder == <<"db", "web">>

yaml_dump(data) ==
    [i \in 1..Len(ServiceOrder) |->
        [service |-> ServiceOrder[i], config |-> data[ServiceOrder[i]]]]

(***************************************************************************)
(* Inputs: command lines, files on disk, the registry's stacks             *)
(***************************************************************************)
Procs == {1, 2}

\* Invocations of the sequential specification run one after another.
SeqProcs == {1}

DefaultEnvId == 1

PORTAINER_URL == <<"u">>

API_KEY == <<"k">>

QA_STACK == <<"q", "a">>

OTHER_STACK == <<"z", "z">>

COMPOSE_PATH == <<"c">>

REGISTRY_URL == <<"r">>

PROJECT_PATH == <<"a">>

NEW_TAG == <<"t">>

ARTIFACT_TAG == <<"s">>

ARTIFACTS_DIR == <<"d">>

BRANCH == <<"r">>

Absent == [present |-> FALSE, val |-> <<>>]

Present(v) == [present |-> TRUE, val |-> v]

ArtifactDirs == {<<>>, ARTIFACTS_DIR}

BaseArgs(flow) ==
    [flow |-> flow, portainer_url |-> PORTAINER_URL, api_key |-> API_KEY,
     env_id |-> DefaultEnvId, stack_name |-> QA_STACK,
     compose_file |-> COMPOSE_PATH, registry_url |-> REGISTRY_URL,
     project_path |-> PROJECT_PATH, image_tag |-> <<>>,
     previous_tag |-> <<>>, artifact_dir |-> ARTIFACTS_DIR,
     branch |-> Absent, prune |-> FALSE, pull |-> FALSE]

DeployArgs ==
    {[BaseArgs("deploy") EXCEPT !.registry_url = r, !.project_path = pp,
                                !.image_tag = t] :
        r \in {<<>>, REGISTRY_URL}, pp \in {<<>>, PROJECT_PATH},
        t \in {<<>>, NEW_TAG}}

RollbackArgs ==
    {[BaseArgs("rollback") EXCEPT !.registry_url = r, !.previous_tag = t,
                                  !.artifact_dir = d] :
        r \in {<<>>, REGISTRY_URL}, t \in {<<>>, NEW_TAG},
        d \in ArtifactDirs}

\* Every combination of required values present or missing; validate_args
\* exits before any optional value is read, so these keep the optional
\* values of BaseArgs.
RequiredArgVariants ==
    {[BaseArgs(f) EXCEPT !.portainer_url = u, !.api_key = k,
                         !.stack_name = n, !.compose_file = c] :
        f \in {"deploy", "rollback"}, u \in {<<>>, PORTAINER_URL},
        k \in {<<>>, API_KEY}, n \in {<<>>, QA_STACK},
        c \in {<<>>, COMPOSE_PATH}}

ArgSets == DeployArgs \cup RollbackArgs \cup RequiredArgVariants

ComposeKinds == {"not_found", "unparseable", "mapping"}

ComposeDocs ==
    {[s \in ServiceNames |->
        IF s = "web" THEN WithImage(<<"a", ":", "o">>) ELSE NoImage]}

EmptyDoc == [s \in ServiceNames |-> NoImage]

\* artifacts/last_successful_tag.json as found on disk
ArtifactFiles ==
    {[kind |-> k, has_tag |-> FALSE, tag |-> <<>>] :
        k \in {"absent", "corrupt", "array", "object"}}
    \cup {[kind |-> "object", has_tag |-> TRUE, tag |-> t] :
        t \in {<<>>, ARTIFACT_TAG, NEW_TAG}}

\* The registry lists stacks in the order it created them, by ascending Id.
StackKeys ==
    {<<QA_STACK, DefaultEnvId>>, <<QA_STACK, DefaultEnvId + 1>>,
     <<OTHER_STACK, DefaultEnvId>>}

StackRecords ==
    {[Name |-> k[1], EndpointId |-> k[2], Id |-> i] :
        k \in StackKeys, i \in 0..MaxStackId}

AscendingIds(l) == \A i, j \in 1..Len(l) : i < j => l[i].Id < l[j].Id

StackLists == {l \in SeqsUpTo(StackRecords, MaxStacks) : AscendingIds(l)}

AbsentFile == [kind |-> "absent", recs |-> <<>>]

ArrayFile(recs) == [kind |-> "array", recs |-> recs]

HistoryFiles ==
    {AbsentFile, ArrayFile(<<>>),
     [kind |-> "corrupt", recs |-> <<>>], [kind |-> "object", recs |-> <<>>]}

RwIdle ==
    [step |-> 0, doc |-> EmptyDoc, registry_url |-> <<>>,
     project_path |-> <<>>, image_tag |-> <<>>, out1 |-> EmptyDoc,
     out2 |-> EmptyDoc]

RsIdle ==
    [step |-> 0, previous_tag |-> <<>>,
     artifact |-> [kind |-> "absent", has_tag |-> FALSE, tag |-> <<>>],
     branch |-> Absent, tag |-> <<>>]

\* math_utils: numbers are integers; a quotient is kept exact as a reduced
\* fraction num/den with den > 0
Abs(n) == IF n < 0 THEN -n ELSE n

RECURSIVE Gcd(_, _)
Gcd(m, n) == IF n = 0 THEN m ELSE Gcd(n, m % n)

Returned(n, d) ==
    [raised |-> FALSE, error |-> "", message |-> "", num |-> n, den |-> d]

Raised(e, msg) ==
    [raised |-> TRUE, error |-> e, message |-> msg, num |-> 0, den |-> 1]

\* a / b
true_div(a, b) ==
    IF b = 0 THEN Raised("ZeroDivisionError", "division by zero")
    ELSE LET g == Gcd(Abs(a), Abs(b))
         IN  Returned((IF b < 0 THEN -a ELSE a) \div g, Abs(b) \div g)

divide_unchecked(a, b) == true_div(a, b)

divide(a, b) ==
    IF b = 0 THEN Raised("ValueError", "Cannot divide by zero")
    ELSE true_div(a, b)

DvIdle ==
    [step |-> 0, a |-> 0, b |-> 0,
     out |-> [raised |-> FALSE, error |-> "", message |-> "", num |-> 0,
              den |-> 1]]

InitInvocations ==
    /\ pc = [p \in Procs |-> "idle"]
    /\ exit_code = [p \in Procs |-> 0]
    /\ args = [p \in Procs |-> BaseArgs("deploy")]
    /\ compose_kind = [p \in Procs |-> "unknown"]
    /\ compose_data = [p \in Procs |-> EmptyDoc]
    /\ previous_tag = [p \in Procs |-> <<>>]
    /\ stack_id = [p \in Procs |-> NoneId]
    /\ history = [p \in Procs |-> [is_list |-> TRUE, recs |-> <<>>]]
    /\ calls = [p \in Procs |-> <<>>]
    /\ wrote = [p \in Procs |-> 0]
    /\ io_error = [p \in Procs |-> FALSE]
    /\ artifact_error = [p \in Procs |-> FALSE]
    /\ clock = 0

Init ==
    /\ InitInvocations
    /\ stacks \in StackLists
    /\ history_file \in
         {[d \in ArtifactDirs |-> IF d = <<>> THEN AbsentFile ELSE f] :
             f \in HistoryFiles}
    /\ rw = RwIdle
    /\ rs = RsIdle
    /\ dv = DvIdle

(***************************************************************************)
(* main(): one action per step of the deploy and rollback scripts          *)
(***************************************************************************)
Exit(p, code) ==
    /\ pc' = [pc EXCEPT ![p] = "exited"]
    /\ exit_code' = [exit_code EXCEPT ![p] = code]

Goto(p, label) ==
    /\ pc' = [pc EXCEPT ![p] = label]
    /\ UNCHANGED exit_code

Call(op, ok, id, name, endpointId, content, body) ==
    [op |-> op, ok |-> ok, id |-> id, name |-> name,
     endpointId |-> endpointId, content |-> content, body |-> body]

\* parse_arguments: a new invocation starts with a command line of A
StartFrom(p, A) ==
    /\ pc[p] \in {"idle", "exited"}
    /\ clock < MaxInvocations
    /\ clock' = clock + 1
    /\ \E a \in A : args' = [args EXCEPT ![p] = a]
    /\ pc' = [pc EXCEPT ![p] = "validate_args"]
    /\ exit_code' = [exit_code EXCEPT ![p] = 0]
    /\ compose_kind' = [compose_kind EXCEPT ![p] = "unknown"]
    /\ compose_data' = [compose_data EXCEPT ![p] = EmptyDoc]
    /\ previous_tag' = [previous_tag EXCEPT ![p] = <<>>]
    /\ stack_id' = [stack_id EXCEPT ![p] = NoneId]
    /\ history' = [history EXCEPT ![p] = [is_list |-> TRUE, recs |-> <<>>]]
    /\ calls' = [calls EXCEPT ![p] = <<>>]
    /\ wrote' = [wrote EXCEPT ![p] = 0]
    /\ io_error' = [io_error EXCEPT ![p] = FALSE]
    /\ artifact_error' = [artifact_error EXCEPT ![p] = FALSE]
    /\ UNCHANGED <<stacks, history_file, rw, rs, dv>>

Start(p) == StartFrom(p, ArgSets)

\* validate_args: missing required values, then os.path.exists(compose_file)
ValidateArgs(p) ==
    /\ pc[p] = "validate_args"
    /\ IF missing_args(args[p]) # {}
       THEN Exit(p, 1) /\ UNCHANGED compose_kind
       ELSE \E k \in ComposeKinds :
              /\ compose_kind' = [compose_kind EXCEPT ![p] = k]
              /\ IF k = "not_found" THEN Exit(p, 1)
                 ELSE IF args[p].flow = "rollback"
                      THEN Goto(p, "get_previous_tag")
                      ELSE Goto(p, "read_compose_file")
    /\ UNCHANGED <<args, compose_data, previous_tag, stack_id, history,
                   calls, wrote, io_error, artifact_error, stacks,
                   history_file, clock, rw, rs, dv>>

\* rollback: previous_tag = get_previous_tag(args)
GetPreviousTag(p) ==
    /\ pc[p] = "get_previous_tag"
    /\ \E artifact \in ArtifactFiles :
         LET tag == get_previous_tag(args[p].previous_tag, artifact,
                                     args[p].branch)
         IN  /\ IF tag = <<>>
                THEN Exit(p, 1) /\ UNCHANGED previous_tag
                ELSE /\ previous_tag' = [previous_tag EXCEPT ![p] = tag]
                     /\ Goto(p, "read_compose_file")
             /\ artifact_error' = [artifact_error EXCEPT ![p] =
                   /\ args[p].previous_tag = <<>>
                   /\ artifact_read_raises(artifact)]
    /\ UNCHANGED <<args, compose_kind, compose_data, stack_id, history, calls,
                   wrote, io_error, stacks, history_file, clock, rw, rs, dv>>

\* read_compose_file: yaml.safe_load, sys.exit(1) on any exception
ReadComposeFile(p) ==
    /\ pc[p] = "read_compose_file"
    /\ IF compose_kind[p] = "unparseable"
       THEN Exit(p, 1) /\ UNCHANGED compose_data
       ELSE \E d \in ComposeDocs :
              /\ compose_data' = [compose_data EXCEPT ![p] = d]
              /\ Goto(p, "update_image_tags")
    /\ UNCHANGED <<args, compose_kind, previous_tag, stack_id, history,
                   calls, wrote, io_error, artifact_error, stacks,
                   history_file, clock, rw, rs, dv>>

\* deploy: the guarded call with args.image_tag; rollback: the call with
\* previous_tag
UpdateImageTags(p) ==
    /\ pc[p] = "update_image_tags"
    /\ LET a == args[p]
           rewritten ==
             IF a.flow = "rollback"
             THEN update_image_tags(compose_data[p], a.registry_url,
                                    a.project_path, previous_tag[p])
             ELSE IF a.image_tag # <<>> /\ a.registry_url # <<>>
                     /\ a.project_path # <<>>
                  THEN update_image_tags(compose_data[p], a.registry_url,
                                         a.project_path, a.image_tag)
                  ELSE compose_data[p]
       IN  compose_data' = [compose_data EXCEPT ![p] = rewritten]
    /\ Goto(p, "get_stack_id")
    /\ UNCHANGED <<args, compose_kind, previous_tag, stack_id, history,
                   calls, wrote, io_error, artifact_error, stacks,
                   history_file, clock, rw, rs, dv>>

\* stack_id = get_stack_id(...): GET /api/stacks, which may fail
GetStackId(p) ==
    /\ pc[p] = "get_stack_id"
    /\ \E ok \in BOOLEAN :
         /\ calls' = [calls EXCEPT ![p] =
              Append(@, Call("GET", ok, NoneId, <<>>, 0, <<>>,
                             IF ok THEN stacks ELSE <<>>))]
         /\ stack_id' = [stack_id EXCEPT ![p] =
              get_stack_id(ok, stacks, args[p].env_id, args[p].stack_name)]
    /\ Goto(p, "reconcile")
    /\ UNCHANGED <<args, compose_kind, compose_data, previous_tag, history,
                   wrote, io_error, artifact_error, stacks, history_file,
                   clock, rw, rs, dv>>

\* update_stack: PUT /api/stacks/{stack_id}; sys.exit(1) on any exception
UpdateStack(p) ==
    /\ pc[p] = "reconcile"
    /\ stack_found(stack_id[p])
    /\ \E ok \in BOOLEAN :
         /\ calls' = [calls EXCEPT ![p] =
              Append(@, Call("PUT", ok, stack_id[p], <<>>, 0,
                             yaml_dump(compose_data[p]), <<>>))]
         /\ pc' = [pc EXCEPT ![p] = after_update(args[p].flow, ok)]
         /\ exit_code' = [exit_code EXCEPT ![p] = IF ok THEN 0 ELSE 1]
    /\ UNCHANGED <<args, compose_kind, compose_data, previous_tag, stack_id,
                   history, wrote, io_error, artifact_error, stacks,
                   history_file, clock, rw, rs, dv>>

NextId(listing) ==
    IF listing = <<>> THEN 1
    ELSE 1 + CHOOSE m \in {listing[i].Id : i \in 1..Len(listing)} :
               \A i \in 1..Len(listing) : listing[i].Id <= m

\* deploy: create_stack: POST /api/stacks; sys.exit(1) on any exception
CreateStack(p) ==
    /\ pc[p] = "reconcile"
    /\ creates_when_missing(args[p].flow)
    /\ ~stack_found(stack_id[p])
    /\ \E ok \in BOOLEAN :
         /\ calls' = [calls EXCEPT ![p] =
              Append(@, Call("POST", ok, NoneId, args[p].stack_name,
                             args[p].env_id, yaml_dump(compose_data[p]),
                             <<>>))]
         /\ IF ok
            THEN /\ stacks' = Append(stacks,
                       [Name |-> args[p].stack_name,
                        EndpointId |-> args[p].env_id,
                        Id |-> NextId(stacks)])
                 /\ Exit(p, 0)
            ELSE UNCHANGED stacks /\ Exit(p, 1)
    /\ UNCHANGED <<args, compose_kind, compose_data, previous_tag, stack_id,
                   history, wrote, io_error, artifact_error, history_file,
                   clock, rw, rs, dv>>

\* rollback: `if not stack_id:` -> "Stack not found", sys.exit(1)
StackNotFound(p) ==
    /\ pc[p] = "reconcile"
    /\ args[p].flow = "rollback"
    /\ ~stack_found(stack_id[p])
    /\ Exit(p, 1)
    /\ UNCHANGED <<args, compose_kind, compose_data, previous_tag, stack_id,
                   history, calls, wrote, io_error, artifact_error, stacks,
                   history_file, clock, rw, rs, dv>>

written_history_merged(in_memory, on_disk, record) ==
    Append(IF on_disk.kind = "array" THEN on_disk.recs ELSE <<>>, record)

\* history.append(record) followed by json.dump(history, f): the list that
\* replaces the file's content
written_history(in_memory, on_disk, record) == Append(in_memory, record)

RollbackRecordWithArg(p) ==
    [timestamp |-> clock, stack |-> args[p].stack_name,
     environment |-> getenv(args[p].branch, UNKNOWN),
     rolled_back_to |-> args[p].previous_tag]

RollbackRecord(p) ==
    [timestamp |-> clock, stack |-> args[p].stack_name,
     environment |-> getenv(args[p].branch, UNKNOWN),
     rolled_back_to |-> previous_tag[p]]

\* rollback: history = [] or json.load(rollback_history.json); any exception
\* is caught by the enclosing try, logged, and main() returns
RecordRead(p) ==
    /\ pc[p] = "record_read"
    /\ LET f == history_file[args[p].artifact_dir]
       IN  IF f.kind = "corrupt"
           THEN Exit(p, 0) /\ UNCHANGED history
           ELSE /\ history' = [history EXCEPT ![p] =
                     [is_list |-> f.kind # "object", recs |-> f.recs]]
                /\ Goto(p, "record_write")
    /\ UNCHANGED <<args, compose_kind, compose_data, previous_tag, stack_id,
                   calls, wrote, io_error, artifact_error, stacks,
                   history_file, clock, rw, rs, dv>>

\* rollback: history.append(record); os.makedirs(dirname); json.dump; any
\* exception is caught by the enclosing try, logged, and main() returns
RecordWrite(p) ==
    /\ pc[p] = "record_write"
    /\ Exit(p, 0)
    /\ IF ~history[p].is_list \/ args[p].artifact_dir = <<>>
       THEN UNCHANGED <<history_file, wrote, io_error>>
       ELSE \E ok \in BOOLEAN :
              IF ok
              THEN /\ history_file' =
                        [history_file EXCEPT ![args[p].artifact_dir] =
                           ArrayFile(written_history(history[p].recs,
                              history_file[args[p].artifact_dir],
                              RollbackRecord(p)))]
                   /\ wrote' = [wrote EXCEPT ![p] = @ + 1]
                   /\ UNCHANGED io_error
              ELSE /\ io_error' = [io_error EXCEPT ![p] = TRUE]
                   /\ UNCHANGED <<history_file, wrote>>
    /\ UNCHANGED <<args, compose_kind, compose_data, previous_tag, stack_id,
                   history, calls, artifact_error, stacks, clock, rw, rs,
                   dv>>

Step(p) ==
    \/ Start(p)
    \/ ValidateArgs(p)
    \/ GetPreviousTag(p)
    \/ ReadComposeFile(p)
    \/ UpdateImageTags(p)
    \/ GetStackId(p)
    \/ UpdateStack(p)
    \/ CreateStack(p)
    \/ StackNotFound(p)
    \/ RecordRead(p)
    \/ RecordWrite(p)

Next == \E p \in SeqProcs : Step(p)

Spec == Init /\ [][Next]_vars

(***************************************************************************)
(* Two invocations running at the same time against one registry and one  *)
(* artifacts directory; their steps interleave freely, as nothing in the   *)
(* scripts takes a lock.                                                   *)
(***************************************************************************)
ConcurrentArgs ==
    {[BaseArgs("deploy") EXCEPT !.image_tag = NEW_TAG],
     [BaseArgs("rollback") EXCEPT !.previous_tag = NEW_TAG]}

ConcurrentStackLists ==
    {<<>>,
     <<[Name |-> OTHER_STACK, EndpointId |-> DefaultEnvId, Id |-> 1]>>,
     <<[Name |-> QA_STACK, EndpointId |-> DefaultEnvId, Id |-> 1]>>}

InitConcurrent ==
    /\ InitInvocations
    /\ stacks \in ConcurrentStackLists
    /\ \E f \in {AbsentFile, ArrayFile(<<>>)} :
          history_file = [d \in ArtifactDirs |->
                            IF d = <<>> THEN AbsentFile ELSE f]
    /\ rw = RwIdle
    /\ rs = RsIdle
    /\ dv = DvIdle

StepConcurrent(p) ==
    \/ StartFrom(p, ConcurrentArgs)
    \/ ValidateArgs(p)
    \/ GetPreviousTag(p)
    \/ ReadComposeFile(p)
    \/ UpdateImageTags(p)
    \/ GetStackId(p)
    \/ UpdateStack(p)
    \/ CreateStack(p)
    \/ StackNotFound(p)
    \/ RecordRead(p)
    \/ RecordWrite(p)

NextConcurrent == \E p \in Procs : StepConcurrent(p)

SpecConcurrent == InitConcurrent /\ [][NextConcurrent]_vars

(***************************************************************************)
(* The image-tag rewriter on its own: update_image_tags applied once and   *)
(* then again to its own result, over bounded documents.                   *)
(***************************************************************************)
HOST_PORT == <<"h", ":", "5", "/">>

OLD_TAG == <<"o">>

RepoChars == {"a", "A"}

Images ==
    {h \o r \o t :
        h \in {<<>>, HOST_PORT}, r \in SeqsFromTo(RepoChars, 1, MaxRepoLen),
        t \in {<<>>, COLON \o OLD_TAG}}

ServiceConfigs == {NoImage} \cup {WithImage(i) : i \in Images}

RewriteDocs == [ServiceNames -> ServiceConfigs]

IdleEnvironment ==
    /\ InitInvocations
    /\ stacks = <<>>
    /\ history_file = [d \in ArtifactDirs |-> AbsentFile]

InitRewrite ==
    /\ IdleEnvironment
    /\ rs = RsIdle
    /\ dv = DvIdle
    /\ \E d \in RewriteDocs, r \in {<<>>, REGISTRY_URL},
          pp \in SeqsUpTo(RepoChars, MaxPathLen), t \in {<<>>, NEW_TAG} :
         rw = [RwIdle EXCEPT !.doc = d, !.registry_url = r,
                             !.project_path = pp, !.image_tag = t]

RewriteOnce ==
    /\ rw.step = 0
    /\ rw' = [rw EXCEPT !.step = 1,
                        !.out1 = update_image_tags(rw.doc, rw.registry_url,
                                     rw.project_path, rw.image_tag)]
    /\ UNCHANGED <<pc, exit_code, args, compose_kind, compose_data,
                   previous_tag, stack_id, history, calls, wrote, io_error,
                   artifact_error, stacks, history_file, clock, rs, dv>>

RewriteAgain ==
    /\ rw.step = 1
    /\ rw' = [rw EXCEPT !.step = 2,
                        !.out2 = update_image_tags(rw.out1, rw.registry_url,
                                     rw.project_path, rw.image_tag)]
    /\ UNCHANGED <<pc, exit_code, args, compose_kind, compose_data,
                   previous_tag, stack_id, history, calls, wrote, io_error,
                   artifact_error, stacks, history_file, clock, rs, dv>>

NextRewrite == RewriteOnce \/ RewriteAgain

SpecRewrite == InitRewrite /\ [][NextRewrite]_vars

(***************************************************************************)
(* The previous-tag resolver on its own, over every combination of the     *)
(* explicit tag, the artifact file and CI_COMMIT_REF_NAME.                 *)
(***************************************************************************)
InitResolve ==
    /\ IdleEnvironment
    /\ rw = RwIdle
    /\ dv = DvIdle
    /\ \E t \in {<<>>, NEW_TAG, ARTIFACT_TAG}, a \in ArtifactFiles,
          b \in {Absent, Present(<<>>), Present(BRANCH), Present(MAIN)} :
         rs = [RsIdle EXCEPT !.previous_tag = t, !.artifact = a, !.branch = b]

Resolve ==
    /\ rs.step = 0
    /\ rs' = [rs EXCEPT !.step = 1,
                        !.tag = get_previous_tag(rs.previous_tag, rs.artifact,
                                                 rs.branch)]
    /\ UNCHANGED <<pc, exit_code, args, compose_kind, compose_data,
                   previous_tag, stack_id, history, calls, wrote, io_error,
                   artifact_error, stacks, history_file, clock, rw, dv>>

NextResolve == Resolve

SpecResolve == InitResolve /\ [][NextResolve]_vars

(***************************************************************************)
(* math_utils.divide on its own, over every pair of bounded integers.      *)
(***************************************************************************)
MaxNum == 6

Nums == (0 - MaxNum)..MaxNum

InitDivide ==
    /\ IdleEnvironment
    /\ rw = RwIdle
    /\ rs = RsIdle
    /\ \E a \in Nums, b \in Nums : dv = [DvIdle EXCEPT !.a = a, !.b = b]

Divide ==
    /\ dv.step = 0
    /\ dv' = [dv EXCEPT !.step = 1, !.out = divide(dv.a, dv.b)]
    /\ UNCHANGED <<pc, exit_code, args, compose_kind, compose_data,
                   previous_tag, stack_id, history, calls, wrote, io_error,
                   artifact_error, stacks, history_file, clock, rw, rs>>

NextDivide == Divide

SpecDivide == InitDivide /\ [][NextDivide]_vars

(***************************************************************************)
(* Properties of the rewriter (SpecRewrite)                                *)
(***************************************************************************)
\* The repository component of an image reference repository[:tag]: the
\* tag separator is a ':' with no '/' after it (a ':' before a '/' belongs
\* to the registry's host:port).
TagColon(image) ==
    IF \E i \in 1..Len(image) :
           image[i] = ":" /\ \A j \in (i + 1)..Len(image) : image[j] \notin {":", "/"}
    THEN CHOOSE i \in 1..Len(image) :
           image[i] = ":" /\ \A j \in (i + 1)..Len(image) : image[j] \notin {":", "/"}
    ELSE 0

RepositoryOf(image) ==
    IF TagColon(image) = 0 THEN image
    ELSE SubSeq(image, 1, TagColon(image) - 1)

ControlsPresent ==
    rw.registry_url # <<>> /\ rw.project_path # <<>> /\ rw.image_tag # <<>>

Matches(config) ==
    config.has_image /\ contains(lower(config.image), lower(rw.project_path))

\* C7: with all control inputs present, the rewriter changes exactly the
\* services whose image contains the project path (case-insensitively),
\* and each changed reference keeps its repository component, registry
\* host:port included, and gets the target tag: repository:T.
C7_OnlyTagOfMatchingServices ==
    (rw.step >= 1 /\ ControlsPresent) =>
        \A s \in ServiceNames :
            rw.out1[s] =
                IF Matches(rw.doc[s])
                THEN WithImage(RepositoryOf(rw.doc[s].image) \o COLON
                               \o rw.image_tag)
                ELSE rw.doc[s]

\* C8: applying the rewriter with the same (P, T) to its own result gives
\* that result back.
C8_RewriterIdempotent == rw.step = 2 => rw.out2 = rw.out1

\* C8 witness: a second application was made to a document that the first
\* application changed, and that still matches the project path.
C8_Witness ==
    /\ rw.step = 2
    /\ rw.out1 # rw.doc
    /\ \E s \in ServiceNames : Matches(rw.out1[s])

(***************************************************************************)
(* Properties of the previous-tag resolver (SpecResolve)                   *)
(***************************************************************************)
ArtifactUsable(a) == a.kind = "object" /\ a.has_tag /\ a.tag # <<>>

\* C6: the explicit tag wins when supplied; otherwise the artifact's
\* last_successful_tag when the file exists, parses and the field is
\* non-empty; otherwise "{branch}-latest" with branch = CI_COMMIT_REF_NAME
\* or "main" when that is absent.
C6_PreviousTagResolution ==
    rs.step = 1 =>
        /\ rs.previous_tag # <<>> => rs.tag = rs.previous_tag
        /\ (rs.previous_tag = <<>> /\ ArtifactUsable(rs.artifact))
              => rs.tag = rs.artifact.tag
        /\ (rs.previous_tag = <<>> /\ ~ArtifactUsable(rs.artifact))
              => /\ rs.branch.present => rs.tag = rs.branch.val \o LATEST_SUFFIX
                 /\ ~rs.branch.present => rs.tag = MAIN \o LATEST_SUFFIX

\* C6 witness: no explicit tag, an artifact file that does not parse, and a
\* branch name in the environment: the fallback was resolved.
C6_Witness ==
    /\ rs.step = 1
    /\ rs.previous_tag = <<>>
    /\ rs.artifact.kind = "corrupt"
    /\ rs.branch = Present(BRANCH)
    /\ rs.tag = BRANCH \o LATEST_SUFFIX

(***************************************************************************)
(* Properties of the deploy and rollback flows (Spec)                      *)
(***************************************************************************)
\* Positions in a listing of the stacks matching the requested (name, env)
MatchIdx(listing, a) ==
    {i \in 1..Len(listing) :
        listing[i].Name = a.stack_name /\ listing[i].EndpointId = a.env_id}

Listed(p) == Len(calls[p]) >= 1 /\ calls[p][1].op = "GET" /\ calls[p][1].ok

Issued(p, op) == \E i \in 1..Len(calls[p]) : calls[p][i].op = op

\* C1: a deploy whose listing holds no stack with the requested Name and
\* EndpointId never issues an update, and ends having issued exactly one
\* create, with that name and endpointId.
C1_NoMatchCreates ==
    \A p \in Procs :
        (/\ args[p].flow = "deploy"
         /\ Listed(p)
         /\ MatchIdx(calls[p][1].body, args[p]) = {})
        => /\ ~Issued(p, "PUT")
           /\ pc[p] = "exited" =>
                /\ Len(calls[p]) = 2
                /\ calls[p][2].op = "POST"
                /\ calls[p][2].name = args[p].stack_name
                /\ calls[p][2].endpointId = args[p].env_id

\* C1 witness: a deploy ended after a listing that held stacks, none of
\* them matching, and a create call.
C1_Witness ==
    \E p \in Procs :
        /\ args[p].flow = "deploy" /\ pc[p] = "exited" /\ Listed(p)
        /\ calls[p][1].body # <<>>
        /\ MatchIdx(calls[p][1].body, args[p]) = {}
        /\ Issued(p, "POST")

\* C2: a deploy whose listing holds exactly one matching stack ends having
\* issued an update against that stack's Id, whatever the Id (0 included),
\* and no create.
C2_OneMatchUpdates ==
    \A p \in Procs :
        (/\ args[p].flow = "deploy"
         /\ pc[p] = "exited"
         /\ Listed(p)
         /\ Cardinality(MatchIdx(calls[p][1].body, args[p])) = 1)
        => /\ ~Issued(p, "POST")
           /\ Len(calls[p]) = 2
           /\ calls[p][2].op = "PUT"
           /\ \A i \in MatchIdx(calls[p][1].body, args[p]) :
                calls[p][2].id = calls[p][1].body[i].Id

FailedWrite(p, i) == calls[p][i].op \in {"POST", "PUT"} /\ ~calls[p][i].ok

\* C3: once a create or update call has failed, the invocation has exited
\* with code 1, the failed call is its last, and it has written no file; a
\* history record is written only after an update call that succeeded.
C3_WriteFailureIsFatal ==
    \A p \in Procs :
        /\ \A i \in 1..Len(calls[p]) :
             FailedWrite(p, i) =>
                /\ pc[p] = "exited" /\ exit_code[p] = 1
                /\ i = Len(calls[p])
                /\ wrote[p] = 0
        /\ wrote[p] > 0 =>
             /\ calls[p] # <<>>
             /\ calls[p][Len(calls[p])].op = "PUT"
             /\ calls[p][Len(calls[p])].ok

\* C3 witness: a rollback whose update call failed has exited with code 1.
C3_Witness ==
    \E p \in Procs :
        /\ args[p].flow = "rollback" /\ pc[p] = "exited" /\ exit_code[p] = 1
        /\ Len(calls[p]) = 2 /\ FailedWrite(p, 2) /\ wrote[p] = 0

PriorRecs(f) == IF f.kind = "array" THEN f.recs ELSE <<>>

\* A rollback that succeeded at the registry ends, and the operating system
\* did not refuse the write of the history file.
RollbackEnds(p) ==
    /\ pc[p] \in {"record_read", "record_write"}
    /\ pc'[p] = "exited"
    /\ ~io_error'[p]
    /\ args[p].artifact_dir = ARTIFACTS_DIR

\* C4: every rollback that succeeded at the registry leaves the history
\* file holding the prior records followed by exactly one new record (so N
\* such rollbacks in a row leave N records, in invocation order).
C4_EachRollbackAppendsOne ==
    [][\A p \in Procs :
         RollbackEnds(p) =>
            history_file'[ARTIFACTS_DIR] =
                ArrayFile(Append(PriorRecs(history_file[ARTIFACTS_DIR]),
                                 RollbackRecord(p)))]_vars

\* C5: a successful rollback that finds the history file missing or not
\* parseable as a JSON array leaves it holding exactly the one new record,
\* and exits with code 0.
C5_UnreadableHistoryStartsAfresh ==
    [][\A p \in Procs :
         (RollbackEnds(p) /\ history_file[ARTIFACTS_DIR].kind # "array") =>
            /\ history_file'[ARTIFACTS_DIR] = ArrayFile(<<RollbackRecord(p)>>)
            /\ exit_code'[p] = 0]_vars

Invalid(p) ==
    \/ args[p].portainer_url = <<>>
    \/ args[p].api_key = <<>>
    \/ args[p].stack_name = <<>>
    \/ args[p].compose_file = <<>>
    \/ compose_kind[p] \in {"not_found", "unparseable"}

\* C9: an invocation with a required value missing, or whose compose file
\* does not exist or does not parse, issues no registry call and writes no
\* file, gets no further than reading the compose file, and exits with 1.
C9_InvalidInputNoWork ==
    \A p \in Procs :
        Invalid(p) =>
            /\ calls[p] = <<>>
            /\ wrote[p] = 0
            /\ pc[p] \in {"validate_args", "get_previous_tag",
                          "read_compose_file", "exited"}
            /\ pc[p] = "exited" => exit_code[p] = 1

\* C9 witness: a rollback with every required value present exited on a
\* compose file that does not parse, after resolving its previous tag.
C9_Witness ==
    \E p \in Procs :
        /\ args[p].flow = "rollback" /\ pc[p] = "exited"
        /\ compose_kind[p] = "unparseable" /\ previous_tag[p] # <<>>
        /\ exit_code[p] = 1 /\ calls[p] = <<>>

NoStackFound(p) ==
    /\ Len(calls[p]) >= 1
    /\ calls[p][1].op = "GET"
    /\ ~calls[p][1].ok \/ MatchIdx(calls[p][1].body, args[p]) = {}

\* C10: a rollback whose lookup finds no matching stack issues no further
\* call, writes no history record, and exits with code 1.
C10_RollbackWithoutStackIsFatal ==
    \A p \in Procs :
        (args[p].flow = "rollback" /\ NoStackFound(p)) =>
            /\ Len(calls[p]) = 1
            /\ wrote[p] = 0
            /\ pc[p] \in {"reconcile", "exited"}
            /\ pc[p] = "exited" => exit_code[p] = 1

\* C10 witness: a rollback exited with code 1 after a listing that held
\* the requested name under another environment only.
C10_Witness ==
    \E p \in Procs :
        /\ args[p].flow = "rollback" /\ pc[p] = "exited" /\ exit_code[p] = 1
        /\ Listed(p)
        /\ \E i \in 1..Len(calls[p][1].body) :
             calls[p][1].body[i].Name = args[p].stack_name
        /\ MatchIdx(calls[p][1].body, args[p]) = {}

(***************************************************************************)
(* Best-effort operations (Spec)                                           *)
(***************************************************************************)
ListingFailed(p) == calls[p] # <<>> /\ calls[p][1].op = "GET" /\ ~calls[p][1].ok

LastCallOk(p, op) ==
    /\ calls[p] # <<>>
    /\ calls[p][Len(calls[p])].op = op
    /\ calls[p][Len(calls[p])].ok

\* A rollback ended after a successful update without a new history record
\* although the write was not refused: its history block raised.
HistoryBlockRaised(p) ==
    /\ args[p].flow = "rollback" /\ pc[p] = "exited"
    /\ LastCallOk(p, "PUT") /\ wrote[p] = 0 /\ ~io_error[p]

BestEffortFailed(p) ==
    ListingFailed(p) \/ artifact_error[p] \/ io_error[p]
        \/ HistoryBlockRaised(p)

\* Exits with code 1 that no best-effort operation brought about: a compose
\* file that does not parse, a failed create or update, or a rollback whose
\* listing succeeded and showed no usable stack.
FatalForOtherReason(p) ==
    \/ compose_kind[p] = "unparseable"
    \/ \E i \in 1..Len(calls[p]) : FailedWrite(p, i)
    \/ args[p].flow = "rollback" /\ Listed(p) /\ Len(calls[p]) = 1

FallbackTag(p) == getenv(args[p].branch, MAIN) \o LATEST_SUFFIX

\* C11 as stated: no failure of a best-effort operation (listing call,
\* tag-artifact read, history file read or write) leads to a non-zero exit:
\* an invocation in which one failed exits with code 1 only for another
\* reason.
C11_BestEffortNeverFatal ==
    \A p \in Procs :
        (pc[p] = "exited" /\ exit_code[p] = 1 /\ BestEffortFailed(p))
            => FatalForOtherReason(p)

\* C11 as amended: a failed tag-artifact read falls back to
\* "{branch}-latest" and a failed history read or write leaves exit code 0;
\* a failed listing is taken as "stack not found", after which a deploy goes
\* on to a create call and a rollback takes its missing-stack exit (code 1)
\* with no update call.
C11_BestEffortDegrades ==
    \A p \in Procs :
        /\ (pc[p] = "exited" /\ exit_code[p] = 1 /\ BestEffortFailed(p))
              => \/ FatalForOtherReason(p)
                 \/ /\ args[p].flow = "rollback"
                    /\ ListingFailed(p) /\ Len(calls[p]) = 1
        /\ ListingFailed(p) =>
              /\ stack_id[p] = NoneId
              /\ ~Issued(p, "PUT")
              /\ (args[p].flow = "deploy" /\ pc[p] = "exited")
                    => Len(calls[p]) = 2 /\ calls[p][2].op = "POST"
        /\ artifact_error[p] => previous_tag[p] = FallbackTag(p)
        /\ (io_error[p] \/ HistoryBlockRaised(p))
              => pc[p] = "exited" /\ exit_code[p] = 0

\* C11 witness: a rollback whose artifact read raised and whose listing
\* call failed has taken the missing-stack exit.
C11_Witness ==
    \E p \in Procs :
        /\ args[p].flow = "rollback" /\ pc[p] = "exited" /\ exit_code[p] = 1
        /\ artifact_error[p] /\ ListingFailed(p)
        /\ previous_tag[p] = FallbackTag(p)

(***************************************************************************)
(* The rewriter's control inputs in the flows (Spec)                       *)
(***************************************************************************)
\* The tag the flow hands to the rewriter: args.image_tag in a deploy, the
\* resolved previous tag in a rollback.
TargetTag(p) ==
    IF args[p].flow = "rollback" THEN previous_tag[p] ELSE args[p].image_tag

ControlAbsent(p) ==
    args[p].registry_url = <<>> \/ args[p].project_path = <<>>
        \/ TargetTag(p) = <<>>

WritesCarryDocument(p) ==
    \A i \in 1..Len(calls[p]) :
        calls[p][i].op \in {"POST", "PUT"}
            => calls[p][i].content = yaml_dump(compose_data[p])

\* C12: when the registry URL, the project path or the target tag is absent
\* or empty, the rewriting step leaves the composition document exactly as
\* it was read and the flow goes on to the stack lookup; every create or
\* update call it then issues carries that unchanged document.
C12_AbsentControlKeepsDocument ==
    /\ [](\A p \in Procs :
            /\ WritesCarryDocument(p)
            /\ (ControlAbsent(p) /\ calls[p] # <<>>)
                  => compose_data[p] \in ComposeDocs)
    /\ [][\A p \in Procs :
            (pc[p] = "update_image_tags" /\ pc'[p] # pc[p] /\ ControlAbsent(p))
                => /\ compose_data'[p] = compose_data[p]
                   /\ pc'[p] = "get_stack_id"]_vars

\* C12 witness: a rollback without a registry URL has sent its update call
\* with the document as read from the compose file.
C12_Witness ==
    \E p \in Procs :
        /\ args[p].flow = "rollback" /\ args[p].registry_url = <<>>
        /\ args[p].project_path # <<>>
        /\ LastCallOk(p, "PUT")
        /\ \E d \in ComposeDocs :
              calls[p][Len(calls[p])].content = yaml_dump(d)

(***************************************************************************)
(* divide (SpecDivide)                                                     *)
(***************************************************************************)
\* C13: divide(a, b) raises ValueError("Cannot divide by zero") for every a
\* when b is 0, and for every a and non-zero b it returns, without raising,
\* the quotient a / b.
C13_DivideRaisesOnlyOnZero ==
    dv.step = 1 =>
        IF dv.b = 0
        THEN /\ dv.out.raised
             /\ dv.out.error = "ValueError"
             /\ dv.out.message = "Cannot divide by zero"
        ELSE /\ ~dv.out.raised
             /\ dv.out.den > 0
             /\ dv.out.num * dv.b = dv.a * dv.out.den

\* C13 witness: divide was called with a non-zero numerator and a zero
\* denominator and raised.
C13_Witness ==
    dv.step = 1 /\ dv.a # 0 /\ dv.b = 0 /\ dv.out.raised

(***************************************************************************)
(* The reconcile state machine of a deploy (Spec)                          *)
(***************************************************************************)
BeforeLookup == {"validate_args", "read_compose_file", "update_image_tags",
                 "get_stack_id"}

CallShape(p) ==
    /\ Len(calls[p]) <= 2
    /\ Len(calls[p]) >= 1 => calls[p][1].op = "GET"
    /\ Len(calls[p]) = 2 => calls[p][2].op \in {"POST", "PUT"}

\* C14: a deploy goes Start -> Lookup -> {Create | Update} -> {Success |
\* Fatal} without retries: its calls are one listing call followed by at most
\* one create or update call, a deploy that made its listing call ends only
\* after exactly one write call, with exit code 0 if that call succeeded and 1
\* if it failed, and no call follows a failed write.
C14_ReconcileWithoutRetries ==
    /\ [](\A p \in Procs :
            args[p].flow = "deploy" =>
              /\ CallShape(p)
              /\ pc[p] \in BeforeLookup => calls[p] = <<>>
              /\ pc[p] = "reconcile" => Len(calls[p]) = 1
              /\ (pc[p] = "exited" /\ calls[p] # <<>>) =>
                    /\ Len(calls[p]) = 2
                    /\ exit_code[p] = IF calls[p][2].ok THEN 0 ELSE 1
              /\ pc[p] \in BeforeLookup \cup {"idle", "reconcile", "exited"})
    /\ [][\A p \in Procs :
            (args[p].flow = "deploy" /\ calls'[p] # calls[p]
               /\ calls'[p] # <<>>)
                => /\ pc[p] \in {"get_stack_id", "reconcile"}
                   /\ \A i \in 1..Len(calls[p]) : ~FailedWrite(p, i)
                   /\ \E c \in {calls'[p][Len(calls'[p])]} :
                         calls'[p] = Append(calls[p], c)]_vars

\* C14 witness: a deploy listed the stacks, found its stack, the update call
\* failed and the invocation ended with exit code 1 after those two calls.
C14_Witness ==
    \E p \in Procs :
        /\ args[p].flow = "deploy" /\ pc[p] = "exited" /\ exit_code[p] = 1
        /\ Len(calls[p]) = 2 /\ Listed(p) /\ FailedWrite(p, 2)
        /\ calls[p][2].op = "PUT"

(***************************************************************************)
(* The stack lookup (Spec)                                                 *)
(***************************************************************************)
\* The Id of the first stack of a listing that matches a's name and
\* environment id, NoneId when none does
FirstMatchId(listing, a) ==
    LET hits == MatchIdx(listing, a)
    IN  IF hits = {} THEN NoneId
        ELSE listing[CHOOSE i \in hits : \A j \in hits : i <= j].Id

\* C15: once an invocation has made its listing call, the Id it holds is
\* that of the first listed stack whose Name and EndpointId both equal the
\* requested ones, and none when nothing matches or the call failed; a
\* deploy whose listing call failed makes a create call as its write.
C15_LookupFirstMatchOrNone ==
    \A p \in Procs :
        calls[p] # <<>> =>
          /\ stack_id[p] = IF Listed(p)
                           THEN FirstMatchId(calls[p][1].body, args[p])
                           ELSE NoneId
          /\ (args[p].flow = "deploy" /\ ListingFailed(p)
                /\ Len(calls[p]) >= 2) => calls[p][2].op = "POST"
          /\ (args[p].flow = "deploy" /\ ListingFailed(p))
                => pc[p] = "reconcile" \/ Len(calls[p]) = 2

\* C15 witness: a deploy whose listing call failed has made a create call
\* although the registry holds a stack with its name and environment id.
C15_Witness ==
    \E p \in Procs :
        /\ args[p].flow = "deploy" /\ ListingFailed(p)
        /\ Len(calls[p]) = 2 /\ calls[p][2].op = "POST" /\ ~calls[p][2].ok
        /\ MatchIdx(stacks, args[p]) # {}

(***************************************************************************)
(* Concurrent invocations (SpecConcurrent)                                 *)
(***************************************************************************)
\* p is a deploy that listed the stacks and saw none with its name and
\* environment id.
SawNoStack(p) ==
    /\ args[p].flow = "deploy"
    /\ Listed(p)
    /\ MatchIdx(calls[p][1].body, args[p]) = {}

C17_HistoryWriteReplacesFile ==
    /\ [](\A p, q \in Procs :
            (p # q /\ pc[p] = "record_write") =>
              /\ pc[q] = "record_read" => ENABLED RecordRead(q)
              /\ pc[q] = "record_write" => ENABLED RecordWrite(q))
    /\ [][\A p \in Procs :
            wrote'[p] > wrote[p] =>
              history_file'[args[p].artifact_dir] =
                ArrayFile(Append(history[p].recs, RollbackRecord(p)))]_vars

\* C17 witness: two rollbacks both updated the stack and both wrote the same
\* history file, which holds one record.
C17_Witness ==
    /\ \A p \in Procs :
          /\ args[p].flow = "rollback" /\ pc[p] = "exited"
          /\ exit_code[p] = 0 /\ LastCallOk(p, "PUT") /\ wrote[p] = 1
    /\ args[1].artifact_dir = args[2].artifact_dir
    /\ Len(history_file[args[1].artifact_dir].recs) = 1

(***************************************************************************)
(* The registry writes of a rollback (Spec)                                *)
(***************************************************************************)
\* C18: a rollback never issues a create call; after its listing call it
\* issues at most one further call, an update addressed to the Id its own
\* lookup returned for (stack name, environment id); and the set of stacks
\* in the registry only ever changes by a deploy's create call.
C18_RollbackOnlyUpdates ==
    /\ [](\A p \in Procs :
            args[p].flow = "rollback" =>
              /\ ~Issued(p, "POST")
              /\ CallShape(p)
              /\ Len(calls[p]) = 2 =>
                    /\ calls[p][2].op = "PUT"
                    /\ Listed(p)
                    /\ calls[p][2].id = stack_id[p]
                    /\ calls[p][2].id = FirstMatchId(calls[p][1].body, args[p])
                    /\ calls[p][2].id # NoneId)
    /\ [][stacks' # stacks =>
            \E p \in Procs :
              /\ args[p].flow = "deploy"
              /\ Len(calls'[p]) = Len(calls[p]) + 1
              /\ calls'[p][Len(calls'[p])].op = "POST"]_vars

\* C18 witness: a rollback found its stack and sent its one update call to
\* the Id its lookup returned.
C18_Witness ==
    \E p \in Procs :
        /\ args[p].flow = "rollback" /\ pc[p] = "exited"
        /\ Len(calls[p]) = 2 /\ Listed(p) /\ calls[p][2].op = "PUT"
        /\ calls[p][2].id = FirstMatchId(stacks, args[p])
        /\ calls[p][2].id # NoneId

(***************************************************************************)
(* The tag of a rollback (Spec)                                            *)
(***************************************************************************)
AfterResolution == {"read_compose_file", "update_image_tags", "get_stack_id",
                    "reconcile", "record_read", "record_write"}

\* C19: in a rollback the previous tag is set once, by the resolver, before
\* the compose file is read, and does not change afterwards; the document
\* sent in the update call is the compose document rewritten with that tag,
\* and a history record written by the invocation carries that tag as
\* rolled_back_to.
C19_OneTagPerRollback ==
    /\ [](\A p \in Procs :
            args[p].flow = "rollback" =>
              /\ pc[p] \in {"validate_args", "get_previous_tag"} =>
                    previous_tag[p] = <<>> /\ compose_data[p] = EmptyDoc
              /\ pc[p] \in AfterResolution => previous_tag[p] # <<>>
              /\ (previous_tag[p] # <<>> /\ args[p].previous_tag # <<>>)
                    => previous_tag[p] = args[p].previous_tag
              /\ \A i \in 1..Len(calls[p]) :
                    calls[p][i].op = "PUT" =>
                      \E d \in ComposeDocs :
                        calls[p][i].content =
                          yaml_dump(update_image_tags(d, args[p].registry_url,
                              args[p].project_path, previous_tag[p])))
    /\ [][\A p \in Procs :
            args[p].flow = "rollback" =>
              /\ (previous_tag'[p] # previous_tag[p]
                    /\ pc[p] \notin {"idle", "exited"})
                    => pc[p] = "get_previous_tag" /\ previous_tag[p] = <<>>
              /\ wrote'[p] > wrote[p] =>
                    LET f == history_file'[args[p].artifact_dir]
                    IN  /\ f.recs # <<>>
                        /\ f.recs[Len(f.recs)].rolled_back_to = previous_tag[p]
                        /\ previous_tag'[p] = previous_tag[p]]_vars

\* C19 witness: a rollback without --previous-tag took its tag from the
\* artifact, sent the document rewritten with it and recorded it.
C19_Witness ==
    \E p \in Procs :
        /\ args[p].flow = "rollback" /\ pc[p] = "exited" /\ wrote[p] = 1
        /\ args[p].previous_tag = <<>> /\ previous_tag[p] = ARTIFACT_TAG
        /\ args[p].registry_url # <<>>
        /\ LET f == history_file[args[p].artifact_dir]
           IN  f.recs # <<>>
                 /\ f.recs[Len(f.recs)].rolled_back_to = ARTIFACT_TAG
        /\ LastCallOk(p, "PUT")
        /\ \E d \in ComposeDocs :
              calls[p][2].content =
                yaml_dump(update_image_tags(d, args[p].registry_url,
                                            args[p].project_path, ARTIFACT_TAG))

====
